---- MODULE Spec2Model ----
(***************************************************************************)
(* A model of the example notebooks of sagemaker-genai-hosting-examples:   *)
(*                                                                         *)
(*   - the Llama3.1/Mistral workflow notebook: the custom orchestrator     *)
(*     PythonCustomInferenceEntryPoint and its handle/_invoke_workflow;    *)
(*   - the scale-to-zero notebook: endpoint set-up, the status polling     *)
(*     loop, the deployment, the four EventBridge schedules, and the       *)
(*     clean-up cells;                                                     *)
(*   - the DeepSeek notebook: the streaming response loop.                 *)
(*                                                                         *)
(* The remote services (SageMaker runtime, SageMaker control plane,        *)
(* EventBridge Scheduler) are the environment: what they answer is a       *)
(* nondeterministic choice, what the notebooks send them is computed as    *)
(* the code computes it.                                                   *)
(***************************************************************************)
EXTENDS Integers, Sequences, FiniteSets, TLC

VARIABLES
    notebook,   \* which notebook this run executes
    \* ---- workflow notebook: PythonCustomInferenceEntryPoint
    self,       \* the orchestrator object's attributes
    pc,         \* per invocation of handle: the statement it is at
    frames,     \* per frame: the local variables of _invoke_workflow
    request,    \* per invocation: the request body handle was called with
    calls,      \* per invocation: the invoke_endpoint requests it has issued
    received,   \* per invocation: what each of those requests answered
    outcome,    \* per invocation: what handle gave its caller
    \* ---- scale-to-zero notebook
    nb_pc,          \* the cell (or statement of a cell) the run is at
    nb_exc,         \* the exception that ended the run, "none" while none has
    status,         \* the polling loop's `status`
    model_name,     \* the ModelName describe_inference_component answered
    cleanup_index,  \* the schedule clean-up loop: index of the next schedule
    report,         \* the schedule clean-up loop: what it printed per schedule
    endpoint_config,    \* SageMaker: the endpoint configuration exists
    endpoint,           \* SageMaker: the endpoint's EndpointStatus
    inference_component,          \* SageMaker: the inference component
    schedules,          \* EventBridge Scheduler: the schedules by name
    now,                \* the clock, in hours
    fired,              \* the schedules that have fired at this hour
    armed,              \* per schedule pair: it has fired since both exist
    cycle,              \* CopyCount before the last scale-in, after the last scale-out
    last_failure,       \* the last failure a client call of the run raised
    \* ---- DeepSeek notebook: the streaming response loop
    ds_pc,          \* the statement the cell is at
    ds_exc,         \* the exception that ended the cell
    ds_stream,      \* the events response['Body'] has yet to yield
    ds_printed,     \* what the loop has printed
    ds_failure      \* the last failure the client library raised

wf_vars == <<self, pc, frames, request, calls, received, outcome>>
s2z_vars == <<nb_pc, nb_exc, status, model_name, cleanup_index, report,
              endpoint_config, endpoint, inference_component, schedules, now, fired,
              armed, cycle, last_failure>>
ds_vars == <<ds_pc, ds_exc, ds_stream, ds_printed, ds_failure>>
vars == <<notebook, wf_vars, s2z_vars, ds_vars>>

Notebooks == {"workflow", "scale_to_zero", "deepseek"}

(***************************************************************************)
(* Python values, JSON texts and exceptions.                               *)
(***************************************************************************)
None == [type |-> "none"]
PyStr(s) == [type |-> "str", s |-> s]
PyInt(n) == [type |-> "int", n |-> n]
PyDict(items) == [type |-> "dict", items |-> items]
PyList(elems) == [type |-> "list", elems |-> elems]

Ok(v) == [ok |-> TRUE, val |-> v]
Raise(e) == [ok |-> FALSE, exc |-> e]

\* json.dumps: the JSON text of a value.  A text is kept as the document it
\* spells; bytes that spell no document are NotJson.
json_dumps(v) == [kind |-> "json", doc |-> v]
NotJson == [kind |-> "bytes", doc |-> None]

\* json.loads: the document of a JSON text, JSONDecodeError for other bytes.
json_loads(body) ==
    IF body.kind = "json" THEN Ok(body.doc) ELSE Raise("JSONDecodeError")

\* value[key] for a string key: a dict's item, KeyError when the dict lacks
\* the key, TypeError for a value that is not a dict (a list takes integers).
getitem(v, key) ==
    IF v.type = "dict"
    THEN IF key \in DOMAIN v.items THEN Ok(v.items[key]) ELSE Raise("KeyError")
    ELSE Raise("TypeError")

\* json.loads(response.get('Body').read())['generated_text']; a variable
\* that holds no response has no body to read.
read_generated_text(body) ==
    IF "kind" \notin DOMAIN body THEN Raise("AttributeError")
    ELSE LET doc == json_loads(body)
         IN  IF doc.ok THEN getitem(doc.val, "generated_text") ELSE doc

(***************************************************************************)
(* The workflow notebook's names.                                          *)
(***************************************************************************)
region == "region"
llama_mistral_endpoint_name == "llama-mistral-endpoint"
llama_ic_name == "llama-ic"
mistral_ic_name == "mistral-ic"

\* ResourceRequirements(requests={...})
ResourceRequirements(requests) == [requests |-> requests]

\* The keyword arguments of the two ModelBuilder(...) calls that configure
\* the inference components the workflow invokes.
llama_model_builder ==
    [model |-> "meta-textgeneration-llama-3-1-8b",
     schema_builder |-> "SchemaBuilder(sample_input, sample_output)",
     resource_requirements |->
         ResourceRequirements([memory |-> 49152, num_accelerators |-> 1,
                               copies |-> 1, num_cpus |-> 20]),
     inference_component_name |-> llama_ic_name]
mistral_mb ==
    [model |-> "huggingface-llm-mistral-7b",
     schema_builder |-> "SchemaBuilder(sample_input, sample_output)",
     inference_component_name |-> mistral_ic_name,
     resource_requirements |->
         ResourceRequirements([memory |-> 49152, num_accelerators |-> 1,
                               copies |-> 1, num_cpus |-> 20])]

\* PythonCustomInferenceEntryPoint.__init__ as the notebook calls it
constructed ==
    [region_name |-> region,
     endpoint_name |-> llama_mistral_endpoint_name,
     component_names |-> <<llama_ic_name, mistral_ic_name>>]

\* The `client` property: a new client per access, nothing kept on self.
client_access_cached(s) == s @@ [_client |-> "sagemaker-runtime"]
client_access(s) == s

\* The locals of _invoke_workflow live in the frame of their own invocation.
frame_shared(i) == "A"
frame(i) == i

max_new_tokens == 50

\* The second request's payload (parameters and payload dicts).
payload_from_request(data, llama_generated_text) == data
payload_with_request_parameters(data, llama_generated_text) ==
    json_dumps(PyDict([inputs |-> llama_generated_text,
                     parameters |->
                         IF /\ data.kind = "json"
                            /\ data.doc.type = "dict"
                            /\ "parameters" \in DOMAIN data.doc.items
                         THEN data.doc.items.parameters
                         ELSE PyDict([max_new_tokens |-> PyInt(max_new_tokens)])]))
payload(data, llama_generated_text) ==
    json_dumps(PyDict([inputs |-> llama_generated_text,
                     parameters |-> PyDict([max_new_tokens |-> PyInt(max_new_tokens)])]))

\* The InferenceComponentName of the first and of the second request
\* (Python's component_names[0] and component_names[1]).
first_component(s) == s.component_names[1]
second_component_same_as_first(s) == s.component_names[1]
second_component(s) == s.component_names[2]

\* client.invoke_endpoint(...) as _invoke_workflow issues it
invoke_request(s, component_name, body) ==
    [region_name |-> s.region_name,
     EndpointName |-> s.endpoint_name,
     Body |-> body,
     ContentType |-> "application/json",
     InferenceComponentName |-> component_name]

\* The statements of _invoke_workflow in program order.  No statement is
\* inside a try: an exception ends the invocation.
next_pc_skip_parse(at, ok) ==
    IF ~ok THEN "done"
    ELSE CASE at = "invoke_llama" -> "invoke_mistral"
           [] at = "parse_llama" -> "invoke_mistral"
           [] at = "invoke_mistral" -> "parse_mistral"
           [] at = "parse_mistral" -> "done"
next_pc_retry(at, ok) ==
    IF ~ok THEN (IF at = "invoke_llama" THEN "invoke_llama" ELSE "done")
    ELSE CASE at = "invoke_llama" -> "parse_llama"
           [] at = "parse_llama" -> "invoke_mistral"
           [] at = "invoke_mistral" -> "parse_mistral"
           [] at = "parse_mistral" -> "done"
next_pc(at, ok) ==
    IF ~ok THEN "done"
    ELSE CASE at = "invoke_llama" -> "parse_llama"
           [] at = "parse_llama" -> "invoke_mistral"
           [] at = "invoke_mistral" -> "parse_mistral"
           [] at = "parse_mistral" -> "done"

\* What the caller of handle sees of an exception raised inside it.
propagate(exc) == exc

(***************************************************************************)
(* The environment of the workflow: callers and the hosted components.     *)
(***************************************************************************)
Slots == {"A", "B"}
Texts == {"t1", "t2"}

\* Request bodies a caller sends: without and with parameters of its own.
RequestBodies ==
    {json_dumps(PyDict([inputs |-> PyStr("q1")])),
     json_dumps(PyDict([inputs |-> PyStr("q2"),
                      parameters |-> PyDict([max_new_tokens |-> PyInt(32)])]))}

\* Response bodies a component may answer with: the object the handler
\* expects, an object without the field, the list form of the notebook's
\* sample_output, and bytes that are no JSON.
ResponseBodies ==
    {json_dumps(PyDict([generated_text |-> PyStr(t)])) : t \in Texts}
    \cup {json_dumps(PyDict([error |-> PyStr("e")])),
          json_dumps(PyList(<<PyDict([generated_text |-> PyStr("t1")])>>)),
          NotJson}

\* Errors botocore raises from invoke_endpoint.
ClientErrors == {"ModelError", "ThrottlingException"}

Answers == {Ok(b) : b \in ResponseBodies} \cup {Raise(e) : e \in ClientErrors}

NoFrame ==
    [data |-> None, llama_response |-> None, llama_generated_text |-> None,
     mistral_response |-> None]
NoOutcome == [kind |-> "none"]
Returned(v) == [kind |-> "returned", val |-> v]
Raised(e) == [kind |-> "raised", exc |-> propagate(e)]

InitWorkflow ==
    /\ self = constructed
    /\ pc = [i \in Slots |-> "idle"]
    /\ frames = [i \in Slots |-> NoFrame]
    /\ request = [i \in Slots |-> None]
    /\ calls = [i \in Slots |-> <<>>]
    /\ received = [i \in Slots |-> <<>>]
    /\ outcome = [i \in Slots |-> NoOutcome]

\* handle(data): the model server calls the entry point with a request body.
\* A caller may call again once its previous call has ended.
handle(i) ==
    /\ notebook = "workflow"
    /\ pc[i] \in {"idle", "done"}
    /\ \E data \in RequestBodies :
         /\ frames' = [frames EXCEPT ![frame(i)] = [NoFrame EXCEPT !.data = data]]
         /\ request' = [request EXCEPT ![i] = data]
    /\ pc' = [pc EXCEPT ![i] = "invoke_llama"]
    /\ calls' = [calls EXCEPT ![i] = <<>>]
    /\ received' = [received EXCEPT ![i] = <<>>]
    /\ outcome' = [outcome EXCEPT ![i] = NoOutcome]
    /\ UNCHANGED <<notebook, s2z_vars, ds_vars, self>>

\* llama_response = self.client.invoke_endpoint(..., Body=data, ...)
invoke_llama(i) ==
    /\ notebook = "workflow"
    /\ pc[i] = "invoke_llama"
    /\ self' = client_access(self)
    /\ calls' = [calls EXCEPT ![i] =
                   Append(@, invoke_request(self, first_component(self),
                                            frames[frame(i)].data))]
    /\ \E answer \in Answers :
         /\ received' = [received EXCEPT ![i] = Append(@, answer)]
         /\ pc' = [pc EXCEPT ![i] = next_pc("invoke_llama", answer.ok)]
         /\ IF answer.ok
            THEN /\ frames' = [frames EXCEPT ![frame(i)].llama_response = answer.val]
                 /\ UNCHANGED outcome
            ELSE /\ outcome' = [outcome EXCEPT ![i] = Raised(answer.exc)]
                 /\ UNCHANGED frames
    /\ UNCHANGED <<notebook, s2z_vars, ds_vars, request>>

\* llama_generated_text = json.loads(llama_response.get('Body').read())['generated_text']
parse_llama(i) ==
    /\ notebook = "workflow"
    /\ pc[i] = "parse_llama"
    /\ LET text == read_generated_text(frames[frame(i)].llama_response)
       IN  /\ pc' = [pc EXCEPT ![i] = next_pc("parse_llama", text.ok)]
           /\ IF text.ok
              THEN /\ frames' = [frames EXCEPT ![frame(i)].llama_generated_text = text.val]
                   /\ UNCHANGED outcome
              ELSE /\ outcome' = [outcome EXCEPT ![i] = Raised(text.exc)]
                   /\ UNCHANGED frames
    /\ UNCHANGED <<notebook, s2z_vars, ds_vars, self, request, calls, received>>

\* mistral_response = self.client.invoke_endpoint(..., Body=json.dumps(payload), ...)
invoke_mistral(i) ==
    /\ notebook = "workflow"
    /\ pc[i] = "invoke_mistral"
    /\ self' = client_access(self)
    /\ calls' = [calls EXCEPT ![i] =
                   Append(@, invoke_request(self, second_component(self),
                                            payload(frames[frame(i)].data,
                                                    frames[frame(i)].llama_generated_text)))]
    /\ \E answer \in Answers :
         /\ received' = [received EXCEPT ![i] = Append(@, answer)]
         /\ pc' = [pc EXCEPT ![i] = next_pc("invoke_mistral", answer.ok)]
         /\ IF answer.ok
            THEN /\ frames' = [frames EXCEPT ![frame(i)].mistral_response = answer.val]
                 /\ UNCHANGED outcome
            ELSE /\ outcome' = [outcome EXCEPT ![i] = Raised(answer.exc)]
                 /\ UNCHANGED frames
    /\ UNCHANGED <<notebook, s2z_vars, ds_vars, request>>

\* return json.loads(mistral_response.get('Body').read())['generated_text']
parse_mistral(i) ==
    /\ notebook = "workflow"
    /\ pc[i] = "parse_mistral"
    /\ LET text == read_generated_text(frames[frame(i)].mistral_response)
       IN  /\ pc' = [pc EXCEPT ![i] = next_pc("parse_mistral", text.ok)]
           /\ outcome' = [outcome EXCEPT ![i] =
                            IF text.ok THEN Returned(text.val) ELSE Raised(text.exc)]
    /\ UNCHANGED <<notebook, s2z_vars, ds_vars, self, frames, request, calls, received>>

NextWorkflow ==
    \E i \in Slots :
        \/ handle(i)
        \/ invoke_llama(i)
        \/ parse_llama(i)
        \/ invoke_mistral(i)
        \/ parse_mistral(i)

(***************************************************************************)
(* The scale-to-zero notebook: time.                                       *)
(*                                                                         *)
(* The clock counts whole hours from 2024-11-29T00:00:00 UTC, the day of   *)
(* the schedules' StartDate.  Every schedule of the notebook fires at      *)
(* minute 00, so an hour is the finest grain a firing can tell apart.      *)
(***************************************************************************)
IsLeap(y) == (y % 4 = 0 /\ y % 100 # 0) \/ y % 400 = 0
DaysInMonth(y, m) ==
    IF m = 2 THEN (IF IsLeap(y) THEN 29 ELSE 28)
    ELSE IF m \in {4, 6, 9, 11} THEN 30 ELSE 31
DaysInYear(y) == IF IsLeap(y) THEN 366 ELSE 365

RECURSIVE DaysBeforeMonth(_, _)
DaysBeforeMonth(y, m) ==
    IF m = 1 THEN 0 ELSE DaysBeforeMonth(y, m - 1) + DaysInMonth(y, m - 1)

RECURSIVE DaysBeforeYear(_)
DaysBeforeYear(y) ==
    IF y = 2024 THEN 0 ELSE DaysBeforeYear(y - 1) + DaysInYear(y - 1)

\* Days from 2024-01-01 to a date.
DayNumber(date) ==
    DaysBeforeYear(date.year) + DaysBeforeMonth(date.year, date.month) + date.day - 1

Epoch == [year |-> 2024, month |-> 11, day |-> 29, hour |-> 0]

\* The hour of the clock a "YYYY-MM-DDTHH:MM:SS" UTC time falls in.
HourOf(date) == (DayNumber(date) - DayNumber(Epoch)) * 24 + date.hour

\* The wall clock of a time zone `offset` hours east of UTC at clock hour h:
\* hour of the day, day of the week in EventBridge's numbering (1 = Sunday
\* ... 7 = Saturday; 2024-11-29 is a Friday), and year.
LocalHour(h, offset) == (h + offset) % 24
LocalDay(h, offset) == (h + offset) \div 24
LocalDayOfWeek(h, offset) == ((LocalDay(h, offset) + 5) % 7) + 1
LocalYear(h, offset) ==
    LET d == LocalDay(h, offset) + DayNumber(Epoch)
    IN  IF d < DaysBeforeYear(2025) THEN 2024
        ELSE IF d < DaysBeforeYear(2026) THEN 2025 ELSE 2026

(***************************************************************************)
(* The scale-to-zero notebook: names and the requests it builds.           *)
(***************************************************************************)
endpoint_config_name == "llama3-8b-scale-to-zero-sc-config"
endpoint_name == "llama3-8b-scale-to-zero-sc-endpoint"
variant_name == "AllTraffic"
inference_component_name == "final_model.inference_component_name"
final_model_name == "final_model.name"

\* resources_required: the ResourceRequirements the model is deployed with
resources_required == [memory |-> 104096, num_accelerators |-> 4, copies |-> 1]

\* final_model.deploy(endpoint_name=endpoint_name, resources=resources_required):
\* the inference component SageMaker holds after the deployment.
deployed_component ==
    [exists |-> TRUE,
     InferenceComponentName |-> inference_component_name,
     EndpointName |-> endpoint_name,
     VariantName |-> variant_name,
     ModelName |-> final_model_name,
     CopyCount |-> resources_required.copies,
     MinMemoryRequiredInMb |-> resources_required.memory,
     NumberOfAcceleratorDevicesRequired |-> resources_required.num_accelerators]
NoComponent == [exists |-> FALSE]

\* The four schedule names.
update_IC_scale_in_schedule == "scale-to-zero-schedule"
update_IC_scale_out_schedule == "scale-out-schedule"
delete_IC_scale_in_schedule == "scale-to-zero-schedule-1"
delete_IC_scale_out_schedule == "scale-out-schedule-1"
ScheduleNames ==
    {update_IC_scale_in_schedule, update_IC_scale_out_schedule,
     delete_IC_scale_in_schedule, delete_IC_scale_out_schedule}

\* ScheduleExpression: cron(minutes hours day-of-month month day-of-week year)
friday_cron_iso_weekday == [minute |-> 0, hour |-> 18, day_of_week |-> 5, years |-> 2024..2025]
friday_cron == [minute |-> 0, hour |-> 18, day_of_week |-> 6, years |-> 2024..2025]
monday_cron == [minute |-> 0, hour |-> 7, day_of_week |-> 2, years |-> 2024..2025]

\* ScheduleExpressionTimezone="UTC+1": hours east of UTC
timezone_offset == 1

StartDate == [year |-> 2024, month |-> 11, day |-> 29, hour |-> 17]
EndDate == [year |-> 2025, month |-> 12, day |-> 31, hour |-> 23]

\* scheduler.create_schedule(...): the arguments all four calls share
schedule_kept_after_completion(name, cron, target) ==
    [exists |-> TRUE,
     Name |-> name,
     ScheduleExpression |-> cron,
     ScheduleExpressionTimezone |-> timezone_offset,
     Target |-> target,
     FlexibleTimeWindow |-> "OFF",
     ActionAfterCompletion |-> "NONE",
     StartDate |-> HourOf(StartDate),
     EndDate |-> HourOf(EndDate)]
schedule(name, cron, target) ==
    [exists |-> TRUE,
     Name |-> name,
     ScheduleExpression |-> cron,
     ScheduleExpressionTimezone |-> timezone_offset,
     Target |-> target,
     FlexibleTimeWindow |-> "OFF",
     ActionAfterCompletion |-> "DELETE",
     StartDate |-> HourOf(StartDate),
     EndDate |-> HourOf(EndDate)]
NoSchedule == [exists |-> FALSE]

\* scale_in_target / scale_out_target of the UpdateInferenceComponentRuntimeConfig pair
update_scale_in_target ==
    [Arn |-> "updateInferenceComponentRuntimeConfig",
     Input |-> [InferenceComponentName |-> inference_component_name,
                DesiredRuntimeConfig |-> [CopyCount |-> 0]]]
update_scale_out_target ==
    [Arn |-> "updateInferenceComponentRuntimeConfig",
     Input |-> [InferenceComponentName |-> inference_component_name,
                DesiredRuntimeConfig |-> [CopyCount |-> 2]]]

\* scale_in_target of the DeleteInferenceComponent schedule
delete_scale_in_target ==
    [Arn |-> "deleteInferenceComponent",
     Input |-> [InferenceComponentName |-> inference_component_name]]

\* input_config and scale_out_target of the CreateInferenceComponent schedule;
\* model_name is what describe_inference_component answered.
input_config_other_variant(m) ==
    [EndpointName |-> endpoint_name,
     InferenceComponentName |-> inference_component_name,
     RuntimeConfig |-> [CopyCount |-> 2],
     Specification |->
        [ModelName |-> m,
         ComputeResourceRequirements |->
            [MinMemoryRequiredInMb |-> 1024,
             NumberOfAcceleratorDevicesRequired |-> 1]],
     VariantName |-> "variant-1"]
input_config(m) ==
    [EndpointName |-> endpoint_name,
     InferenceComponentName |-> inference_component_name,
     RuntimeConfig |-> [CopyCount |-> 2],
     Specification |->
        [ModelName |-> m,
         ComputeResourceRequirements |->
            [MinMemoryRequiredInMb |-> 1024,
             NumberOfAcceleratorDevicesRequired |-> 1]],
     VariantName |-> variant_name]
create_scale_out_target(m) ==
    [Arn |-> "createInferenceComponent", Input |-> input_config(m)]

(***************************************************************************)
(* EventBridge Scheduler and SageMaker as the schedules see them.          *)
(***************************************************************************)
Min(a, b) == IF a <= b THEN a ELSE b
Max(a, b) == IF a >= b THEN a ELSE b

\* The cron expression matches clock hour h on the wall clock of the zone.
CronMatches(cron, offset, h) ==
    /\ cron.minute = 0
    /\ LocalHour(h, offset) = cron.hour
    /\ LocalDayOfWeek(h, offset) = cron.day_of_week
    /\ LocalYear(h, offset) \in cron.years

\* The schedule invokes its target at clock hour h: on or after StartDate,
\* not after EndDate, when the expression matches.
InvokesAt(s, h) ==
    /\ s.exists
    /\ s.StartDate <= h
    /\ h <= s.EndDate
    /\ CronMatches(s.ScheduleExpression, s.ScheduleExpressionTimezone, h)

\* The schedule has an invocation later than h.  Its expression recurs
\* weekly, so a week from the first hour it may fire is far enough to look.
HasLaterInvocation(s, h) ==
    LET from == Max(h + 1, s.StartDate)
    IN  \E t \in from..Min(from + 167, s.EndDate) : InvokesAt(s, t)

\* ActionAfterCompletion="DELETE": the schedule is deleted once it has made
\* its last invocation.
Completed(s, h) ==
    s.exists /\ s.ActionAfterCompletion = "DELETE" /\ ~HasLaterInvocation(s, h)

\* What SageMaker does with a target's request, given the component and the
\* endpoint as they are; a request it rejects changes nothing.
ApplyTarget(target, c, ep) ==
    CASE target.Arn = "updateInferenceComponentRuntimeConfig" ->
            IF c.exists /\ c.InferenceComponentName = target.Input.InferenceComponentName
            THEN [c EXCEPT !.CopyCount = target.Input.DesiredRuntimeConfig.CopyCount]
            ELSE c
      [] target.Arn = "deleteInferenceComponent" ->
            IF c.exists /\ c.InferenceComponentName = target.Input.InferenceComponentName
            THEN NoComponent
            ELSE c
      [] target.Arn = "createInferenceComponent" ->
            IF ~c.exists /\ ep = "InService" /\ target.Input.EndpointName = endpoint_name
            THEN [exists |-> TRUE,
                  InferenceComponentName |-> target.Input.InferenceComponentName,
                  EndpointName |-> target.Input.EndpointName,
                  VariantName |-> target.Input.VariantName,
                  ModelName |-> target.Input.Specification.ModelName,
                  CopyCount |-> target.Input.RuntimeConfig.CopyCount,
                  MinMemoryRequiredInMb |->
                      target.Input.Specification.ComputeResourceRequirements.MinMemoryRequiredInMb,
                  NumberOfAcceleratorDevicesRequired |->
                      target.Input.Specification.ComputeResourceRequirements.NumberOfAcceleratorDevicesRequired]
            ELSE c

UpdatePair == {update_IC_scale_in_schedule, update_IC_scale_out_schedule}
DeletePair == {delete_IC_scale_in_schedule, delete_IC_scale_out_schedule}
BothExist(sch, pair) == \A n \in pair : sch[n].exists

\* A schedule that is to fire at this hour and has not yet.
Pending(name) == InvokesAt(schedules[name], now) /\ name \notin fired

\* `armed` once schedules are deleted: a pair that lost a schedule is no
\* pair any more.
StillArmed(a, sch) ==
    [update |-> a.update /\ BothExist(sch, UpdatePair),
     recreate |-> a.recreate /\ BothExist(sch, DeletePair)]

(***************************************************************************)
(* Bounds of the clock: the hours the model lets pass.  The run starts     *)
(* either on the StartDate's day or LateLead hours before the EndDate, and *)
(* the clock stops MaxHour hours into the first case and LateTail hours    *)
(* past the EndDate in the second.                                         *)
(***************************************************************************)
MaxHour == 250
LateLead == 131
LateTail == 2
LateStart == HourOf(EndDate) - LateLead
InWindow(h) == h <= MaxHour \/ (LateStart <= h /\ h <= HourOf(EndDate) + LateTail)

\* Errors botocore raises from a control-plane call, and from the scheduler.
ControlPlaneErrors == {"ClientError"}
SchedulerErrors == {"ThrottlingException"}

NoFailure == [exc |-> "none", at |-> "none"]
NoCycle == [before_in |-> -1, after_out |-> -1]

InitScaleToZero ==
    /\ nb_pc = "create_endpoint_config"
    /\ nb_exc = "none"
    /\ status = "none"
    /\ model_name = "none"
    /\ cleanup_index = 1
    /\ report = [n \in ScheduleNames |-> "none"]
    /\ endpoint_config = FALSE
    /\ endpoint = "absent"
    /\ inference_component = NoComponent
    /\ schedules = [n \in ScheduleNames |-> NoSchedule]
    /\ now \in {0, LateStart}
    /\ fired = {}
    /\ armed = [update |-> FALSE, recreate |-> FALSE]
    /\ cycle = NoCycle
    /\ last_failure = NoFailure

\* A cell's client call raises: nothing catches it, the run ends with it.
CellRaises(exc) ==
    /\ nb_pc' = "raised"
    /\ nb_exc' = exc
    /\ last_failure' = [exc |-> exc, at |-> nb_pc]

s2z_cell_vars == <<status, model_name, cleanup_index, report>>
s2z_service_vars == <<endpoint_config, endpoint, inference_component, schedules, armed, cycle>>
s2z_clock_vars == <<now, fired>>
not_s2z == <<notebook, wf_vars, ds_vars>>

\* sagemaker_client.create_endpoint_config(...)
create_endpoint_config ==
    /\ notebook = "scale_to_zero"
    /\ nb_pc = "create_endpoint_config"
    /\ \/ /\ endpoint_config' = TRUE
          /\ nb_pc' = "create_endpoint"
          /\ UNCHANGED <<nb_exc, last_failure>>
       \/ /\ \E exc \in ControlPlaneErrors : CellRaises(exc)
          /\ UNCHANGED endpoint_config
    /\ UNCHANGED <<s2z_cell_vars, endpoint, inference_component, schedules, armed, cycle,
                   s2z_clock_vars, not_s2z>>

\* sagemaker_client.create_endpoint(...)
create_endpoint ==
    /\ notebook = "scale_to_zero"
    /\ nb_pc = "create_endpoint"
    /\ \/ /\ endpoint' = "Creating"
          /\ nb_pc' = "poll"
          /\ UNCHANGED <<nb_exc, last_failure>>
       \/ /\ \E exc \in ControlPlaneErrors : CellRaises(exc)
          /\ UNCHANGED endpoint
    /\ UNCHANGED <<s2z_cell_vars, endpoint_config, inference_component, schedules, armed, cycle,
                   s2z_clock_vars, not_s2z>>

\* SageMaker brings the endpoint up, or fails to.
endpoint_progress ==
    /\ notebook = "scale_to_zero"
    /\ endpoint = "Creating"
    /\ endpoint' \in {"InService", "Failed"}
    /\ UNCHANGED <<nb_pc, nb_exc, last_failure, s2z_cell_vars, endpoint_config,
                   inference_component, schedules, armed, cycle, s2z_clock_vars, not_s2z>>

\* desc = sagemaker_client.describe_endpoint(...); status = desc["EndpointStatus"]
poll ==
    /\ notebook = "scale_to_zero"
    /\ nb_pc = "poll"
    /\ \/ /\ status' = endpoint
          /\ nb_pc' = "check"
          /\ UNCHANGED <<nb_exc, last_failure>>
       \/ /\ \E exc \in ControlPlaneErrors : CellRaises(exc)
          /\ UNCHANGED status
    /\ UNCHANGED <<model_name, cleanup_index, report, s2z_service_vars,
                   s2z_clock_vars, not_s2z>>

\* if status in ["InService", "Failed"]: break, else time.sleep(30) and poll again
loop_exits_in_service_only(st) == st = "InService"
loop_exits(st) == st \in {"InService", "Failed"}

check ==
    /\ notebook = "scale_to_zero"
    /\ nb_pc = "check"
    /\ nb_pc' = IF loop_exits(status) THEN "deploy" ELSE "poll"
    /\ UNCHANGED <<nb_exc, last_failure, s2z_cell_vars, s2z_service_vars,
                   s2z_clock_vars, not_s2z>>

\* final_model.deploy(..., endpoint_name=endpoint_name, resources=resources_required):
\* SageMaker creates the inference component on an endpoint that is in
\* service and rejects the request otherwise.
deploy ==
    /\ notebook = "scale_to_zero"
    /\ nb_pc = "deploy"
    /\ \/ /\ endpoint = "InService"
          /\ inference_component' = deployed_component
          /\ nb_pc' = "create_scale_in"
          /\ UNCHANGED <<nb_exc, last_failure>>
       \/ /\ \E exc \in ControlPlaneErrors : CellRaises(exc)
          /\ UNCHANGED inference_component
    /\ UNCHANGED <<s2z_cell_vars, endpoint_config, endpoint, schedules, armed, cycle,
                   s2z_clock_vars, not_s2z>>

\* scheduler.create_schedule(Name=name, ...) of the cell at `at`
create_schedule(at, next, name, cron, target) ==
    /\ notebook = "scale_to_zero"
    /\ nb_pc = at
    /\ \/ /\ ~schedules[name].exists
          /\ schedules' = [schedules EXCEPT ![name] = schedule(name, cron, target)]
          /\ nb_pc' = next
          /\ UNCHANGED <<nb_exc, last_failure>>
       \/ /\ \E exc \in SchedulerErrors : CellRaises(exc)
          /\ UNCHANGED schedules
    /\ UNCHANGED <<s2z_cell_vars, endpoint_config, endpoint, inference_component, armed, cycle,
                   s2z_clock_vars, not_s2z>>

create_scale_in_schedule ==
    create_schedule("create_scale_in", "create_scale_out",
                    update_IC_scale_in_schedule, friday_cron, update_scale_in_target)

create_scale_out_schedule ==
    create_schedule("create_scale_out", "describe_component",
                    update_IC_scale_out_schedule, monday_cron, update_scale_out_target)

\* res = sagemaker_client.describe_inference_component(...);
\* model_name = res['Specification']['ModelName']
describe_component ==
    /\ notebook = "scale_to_zero"
    /\ nb_pc = "describe_component"
    /\ \/ /\ inference_component.exists
          /\ model_name' = inference_component.ModelName
          /\ nb_pc' = "create_delete_schedule"
          /\ UNCHANGED <<nb_exc, last_failure>>
       \/ /\ \E exc \in ControlPlaneErrors : CellRaises(exc)
          /\ UNCHANGED model_name
    /\ UNCHANGED <<status, cleanup_index, report, s2z_service_vars,
                   s2z_clock_vars, not_s2z>>

create_delete_schedule ==
    create_schedule("create_delete_schedule", "create_recreate_schedule",
                    delete_IC_scale_in_schedule, friday_cron, delete_scale_in_target)

create_recreate_schedule ==
    create_schedule("create_recreate_schedule", "scheduled",
                    delete_IC_scale_out_schedule, monday_cron,
                    create_scale_out_target(model_name))

\* The notebook goes on to its clean-up cells ("Optionally clean up"):
\* schedules = [delete_IC_scale_out_schedule, delete_IC_scale_in_schedule,
\*              update_IC_scale_out_schedule, update_IC_scale_in_schedule]
cleanup_order_without_last ==
    <<delete_IC_scale_out_schedule, delete_IC_scale_in_schedule,
      update_IC_scale_out_schedule>>
cleanup_order ==
    <<delete_IC_scale_out_schedule, delete_IC_scale_in_schedule,
      update_IC_scale_out_schedule, update_IC_scale_in_schedule>>

\* The clean-up cells in the order the notebook has them: the loop over the
\* schedules, then delete_inference_component, delete_endpoint and
\* delete_endpoint_config.
cleanup_successor_endpoint_first(at) ==
    CASE at = "cleanup" -> "delete_endpoint"
      [] at = "delete_endpoint" -> "delete_component"
      [] at = "delete_component" -> "delete_endpoint_config"
      [] at = "delete_endpoint_config" -> "done"
cleanup_successor(at) ==
    CASE at = "cleanup" -> "delete_component"
      [] at = "delete_component" -> "delete_endpoint"
      [] at = "delete_endpoint" -> "delete_endpoint_config"
      [] at = "delete_endpoint_config" -> "done"

begin_cleanup ==
    /\ notebook = "scale_to_zero"
    /\ nb_pc = "scheduled"
    /\ nb_pc' = "cleanup"
    /\ cleanup_index' = 1
    /\ UNCHANGED <<nb_exc, last_failure, status, model_name, report, s2z_service_vars,
                   s2z_clock_vars, not_s2z>>

\* except scheduler.exceptions.ResourceNotFoundException:
cleanup_catches_all(exc) == TRUE
cleanup_catches(exc) == exc = "ResourceNotFoundException"

\* What delete_schedule(Name=name) may answer: the schedule is deleted, or it
\* does not exist, or the service fails otherwise.
DeleteScheduleAnswers(name) ==
    (IF schedules[name].exists THEN {"deleted"} ELSE {"ResourceNotFoundException"})
    \cup SchedulerErrors

\* One iteration of `for schedule in schedules:` with its try/except.
cleanup_schedule ==
    /\ notebook = "scale_to_zero"
    /\ nb_pc = "cleanup"
    /\ LET name == cleanup_order[cleanup_index]
           goes_on == IF cleanup_index = Len(cleanup_order)
                      THEN cleanup_successor("cleanup") ELSE "cleanup"
       IN  \E answer \in DeleteScheduleAnswers(name) :
             IF answer = "deleted"
             THEN /\ schedules' = [schedules EXCEPT ![name] = NoSchedule]
                  /\ armed' = StillArmed(armed, schedules')
                  /\ report' = [report EXCEPT ![name] = "Deleted schedule"]
                  /\ cleanup_index' = cleanup_index + 1
                  /\ nb_pc' = goes_on
                  /\ UNCHANGED <<nb_exc, last_failure>>
             ELSE IF cleanup_catches(answer)
             THEN /\ report' = [report EXCEPT ![name] = "not found"]
                  /\ last_failure' = [exc |-> answer, at |-> nb_pc]
                  /\ cleanup_index' = cleanup_index + 1
                  /\ nb_pc' = goes_on
                  /\ UNCHANGED <<nb_exc, schedules, armed>>
             ELSE /\ CellRaises(answer)
                  /\ UNCHANGED <<report, cleanup_index, schedules, armed>>
    /\ UNCHANGED <<status, model_name, endpoint_config, endpoint, inference_component,
                   cycle, s2z_clock_vars, not_s2z>>

\* sagemaker_client.delete_inference_component(...): SageMaker rejects the
\* request for a component that does not exist.
delete_component ==
    /\ notebook = "scale_to_zero"
    /\ nb_pc = "delete_component"
    /\ \/ /\ inference_component.exists
          /\ inference_component' = NoComponent
          /\ nb_pc' = cleanup_successor("delete_component")
          /\ UNCHANGED <<nb_exc, last_failure>>
       \/ /\ \E exc \in ControlPlaneErrors : CellRaises(exc)
          /\ UNCHANGED inference_component
    /\ UNCHANGED <<s2z_cell_vars, endpoint_config, endpoint, schedules, armed, cycle,
                   s2z_clock_vars, not_s2z>>

\* sagemaker_client.delete_endpoint(...)
delete_endpoint ==
    /\ notebook = "scale_to_zero"
    /\ nb_pc = "delete_endpoint"
    /\ \/ /\ endpoint' = "absent"
          /\ nb_pc' = cleanup_successor("delete_endpoint")
          /\ UNCHANGED <<nb_exc, last_failure>>
       \/ /\ \E exc \in ControlPlaneErrors : CellRaises(exc)
          /\ UNCHANGED endpoint
    /\ UNCHANGED <<s2z_cell_vars, endpoint_config, inference_component, schedules, armed,
                   cycle, s2z_clock_vars, not_s2z>>

\* sagemaker_client.delete_endpoint_config(...)
delete_endpoint_config ==
    /\ notebook = "scale_to_zero"
    /\ nb_pc = "delete_endpoint_config"
    /\ \/ /\ endpoint_config' = FALSE
          /\ nb_pc' = cleanup_successor("delete_endpoint_config")
          /\ UNCHANGED <<nb_exc, last_failure>>
       \/ /\ \E exc \in ControlPlaneErrors : CellRaises(exc)
          /\ UNCHANGED endpoint_config
    /\ UNCHANGED <<s2z_cell_vars, endpoint, inference_component, schedules, armed, cycle,
                   s2z_clock_vars, not_s2z>>

\* EventBridge Scheduler invokes the target of a schedule that is due.
fire(name) ==
    /\ notebook = "scale_to_zero"
    /\ Pending(name)
    /\ fired' = fired \cup {name}
    /\ LET target == schedules[name].Target
           after == ApplyTarget(target, inference_component, endpoint)
       IN  /\ inference_component' = after
           /\ armed' = [update |-> armed.update
                                   \/ (name \in UpdatePair /\ BothExist(schedules, UpdatePair)),
                        recreate |-> armed.recreate
                                   \/ (name \in DeletePair /\ BothExist(schedules, DeletePair))]
           /\ cycle' =
                IF name = update_IC_scale_in_schedule /\ inference_component.exists
                THEN [before_in |-> inference_component.CopyCount, after_out |-> -1]
                ELSE IF name = update_IC_scale_out_schedule /\ inference_component.exists
                THEN [cycle EXCEPT !.after_out = after.CopyCount]
                ELSE cycle
    /\ UNCHANGED <<nb_pc, nb_exc, last_failure, s2z_cell_vars, endpoint_config, endpoint,
                   schedules, now, not_s2z>>

\* The cells between which hours may pass: those that create the schedules
\* and the wait before the clean-up.
TickCells ==
    {"create_scale_in", "create_scale_out", "describe_component",
     "create_delete_schedule", "create_recreate_schedule", "scheduled"}

\* An hour passes, once every schedule due in this one has fired.  A
\* schedule that has made its last invocation is deleted.
tick ==
    /\ notebook = "scale_to_zero"
    /\ nb_pc \in TickCells
    /\ \A name \in ScheduleNames : ~Pending(name)
    /\ InWindow(now + 1)
    /\ now' = now + 1
    /\ fired' = {}
    /\ schedules' = [n \in ScheduleNames |->
                        IF Completed(schedules[n], now) THEN NoSchedule ELSE schedules[n]]
    /\ armed' = StillArmed(armed, schedules')
    /\ UNCHANGED <<nb_pc, nb_exc, last_failure, s2z_cell_vars, endpoint_config, endpoint,
                   inference_component, cycle, not_s2z>>

NextScaleToZero ==
    \/ create_endpoint_config
    \/ create_endpoint
    \/ endpoint_progress
    \/ poll
    \/ check
    \/ deploy
    \/ create_scale_in_schedule
    \/ create_scale_out_schedule
    \/ describe_component
    \/ create_delete_schedule
    \/ create_recreate_schedule
    \/ begin_cleanup
    \/ cleanup_schedule
    \/ delete_component
    \/ delete_endpoint
    \/ delete_endpoint_config
    \/ tick
    \/ \E name \in ScheduleNames : fire(name)

(***************************************************************************)
(* The DeepSeek notebook: the streaming response loop.                     *)
(***************************************************************************)
MaxEvents == 3

\* The chunks an event's PayloadPart may carry: a completion chunk with a
\* choice, one without choices, and bytes that are no JSON document; and
\* the errors the event stream raises while it is iterated.
Chunks ==
    {json_dumps(PyDict([choices |-> PyList(<<PyDict([delta |-> PyDict([content |-> PyStr("c")])])>>)])),
     json_dumps(PyDict([choices |-> PyList(<<>>)])),
     NotJson}
StreamErrors == {"ModelStreamError", "InternalStreamFailure"}
Events == {Ok(c) : c \in Chunks} \cup {Raise(e) : e \in StreamErrors}

RECURSIVE SeqsUpTo(_, _)
SeqsUpTo(S, n) ==
    IF n = 0 THEN {<<>>}
    ELSE LET shorter == SeqsUpTo(S, n - 1)
         IN  shorter \cup {Append(q, e) : q \in {r \in shorter : Len(r) = n - 1}, e \in S}

InitDeepSeek ==
    /\ ds_pc = "invoke"
    /\ ds_exc = "none"
    /\ ds_stream = <<>>
    /\ ds_printed = <<>>
    /\ ds_failure = "none"

not_ds == <<notebook, wf_vars, s2z_vars>>

\* response = smr_client.invoke_endpoint_with_response_stream(...)
invoke_stream ==
    /\ notebook = "deepseek"
    /\ ds_pc = "invoke"
    /\ \/ /\ ds_stream' \in SeqsUpTo(Events, MaxEvents)
          /\ ds_pc' = "for_event"
          /\ UNCHANGED <<ds_exc, ds_failure>>
       \/ /\ \E exc \in ClientErrors :
                /\ ds_exc' = exc
                /\ ds_failure' = exc
          /\ ds_pc' = "raised"
          /\ UNCHANGED ds_stream
    /\ UNCHANGED <<ds_printed, not_ds>>

\* What the body of the loop prints for a chunk: the try with its
\* `except json.JSONDecodeError`.
print_for(line) ==
    LET chunk == json_loads(line)
    IN  IF ~chunk.ok THEN <<"Error decoding JSON:">>
        ELSE IF "choices" \in DOMAIN chunk.val.items /\ Len(chunk.val.items.choices.elems) > 0
        THEN <<chunk.val.items.choices.elems[1].items.delta.items.content.s>>
        ELSE <<>>

\* for event in response['Body']: one turn of the loop, or its end.  An
\* error the stream raises is raised by the `for` itself, outside the try.
for_event ==
    /\ notebook = "deepseek"
    /\ ds_pc = "for_event"
    /\ IF ds_stream = <<>>
       THEN /\ ds_pc' = "done"
            /\ UNCHANGED <<ds_exc, ds_stream, ds_printed, ds_failure>>
       ELSE LET event == Head(ds_stream)
            IN  IF event.ok
                THEN /\ ds_printed' = ds_printed \o print_for(event.val)
                     /\ ds_stream' = Tail(ds_stream)
                     /\ UNCHANGED <<ds_pc, ds_exc, ds_failure>>
                ELSE /\ ds_pc' = "raised"
                     /\ ds_exc' = event.exc
                     /\ ds_failure' = event.exc
                     /\ UNCHANGED <<ds_stream, ds_printed>>
    /\ UNCHANGED not_ds

NextDeepSeek ==
    \/ invoke_stream
    \/ for_event

Init ==
    /\ notebook \in Notebooks
    /\ InitWorkflow
    /\ InitScaleToZero
    /\ InitDeepSeek
    /\ notebook # "scale_to_zero" => now = 0

Next ==
    \/ NextWorkflow
    \/ NextScaleToZero
    \/ NextDeepSeek

Spec == Init /\ [][Next]_vars

InitWorkflowNotebook == Init /\ notebook = "workflow"
SpecWorkflow == InitWorkflowNotebook /\ [][NextWorkflow]_vars

InitScaleToZeroNotebook == Init /\ notebook = "scale_to_zero"
SpecScaleToZero == InitScaleToZeroNotebook /\ [][NextScaleToZero]_vars

\* The kernel keeps running the polling loop: a poll that is due is made, and
\* so is the test of the status it read.  Nothing makes SageMaker bring the
\* endpoint up.
SpecScaleToZeroFair ==
    /\ InitScaleToZeroNotebook
    /\ [][NextScaleToZero]_vars
    /\ WF_vars(poll)
    /\ WF_vars(check)

(***************************************************************************)
(* Properties of handle.                                                   *)
(***************************************************************************)
\* The generated_text field of a response body, for a body that is a JSON
\* object carrying one.
HasGeneratedText(body) ==
    /\ body.kind = "json"
    /\ body.doc.type = "dict"
    /\ "generated_text" \in DOMAIN body.doc.items
GeneratedTextOf(body) == body.doc.items.generated_text

\* The invocation has ended and both of its remote calls answered.
BothCallsSucceeded(i) ==
    /\ pc[i] = "done"
    /\ Len(received[i]) = 2
    /\ received[i][1].ok
    /\ received[i][2].ok

\* handle returned the second response's generated_text, and the second
\* component had been sent the first response's generated_text as inputs.
ReturnsChained(i) ==
    /\ HasGeneratedText(received[i][1].val)
    /\ HasGeneratedText(received[i][2].val)
    /\ outcome[i] = Returned(GeneratedTextOf(received[i][2].val))
    /\ Len(calls[i]) = 2
    /\ calls[i][2].InferenceComponentName = self.component_names[2]
    /\ calls[i][2].Body.kind = "json"
    /\ calls[i][2].Body.doc.type = "dict"
    /\ calls[i][2].Body.doc.items.inputs = GeneratedTextOf(received[i][1].val)

FirstResponseParsed(i) ==
    /\ Len(received[i]) >= 1
    /\ received[i][1].ok
    /\ HasGeneratedText(received[i][1].val)
    /\ frames[i].llama_generated_text = GeneratedTextOf(received[i][1].val)

\* C2: the second remote call is issued only after the first call's
\* response has been received and parsed, and an invocation that returns
\* has issued exactly two remote calls, the first to the first component and
\* the second to the second component.
C2_SecondCallAfterFirstParsed ==
    \A i \in Slots :
        /\ (pc[i] = "invoke_mistral" \/ Len(calls[i]) >= 2) => FirstResponseParsed(i)
        /\ Len(received[i]) = Len(calls[i])
        /\ outcome[i].kind = "returned" =>
              /\ Len(calls[i]) = 2
              /\ calls[i][1].InferenceComponentName = llama_ic_name
              /\ calls[i][2].InferenceComponentName = mistral_ic_name

C2_Witness ==
    \E i \in Slots :
        /\ outcome[i].kind = "returned"
        /\ Len(calls[i]) = 2
        /\ FirstResponseParsed(i)

\* The number of requests invocation i has sent to a component.
CallsTo(i, c) ==
    Cardinality({k \in 1..Len(calls[i]) : calls[i][k].InferenceComponentName = c})

\* The first remote call of invocation i, or the parsing of its response,
\* has failed.
FirstStepFailed(i) ==
    /\ Len(received[i]) >= 1
    /\ \/ ~received[i][1].ok
       \/ /\ received[i][1].ok
          /\ ~HasGeneratedText(received[i][1].val)
          /\ pc[i] # "parse_llama"

\* C3: within one invocation each component is invoked at most once, and
\* when the first remote call or the parsing of its response fails, no
\* second call is issued and the invocation ends by raising that failure.
C3_NoRetry ==
    \A i \in Slots :
        /\ \A c \in {llama_ic_name, mistral_ic_name} : CallsTo(i, c) <= 1
        /\ Len(calls[i]) <= 2
        /\ FirstStepFailed(i) =>
              /\ Len(calls[i]) = 1
              /\ pc[i] = "done"
              /\ outcome[i].kind = "raised"
              /\ IF received[i][1].ok
                 THEN outcome[i].exc \in {"JSONDecodeError", "KeyError", "TypeError"}
                 ELSE outcome[i].exc = received[i][1].exc

C3_Witness ==
    /\ \E i \in Slots : FirstStepFailed(i) /\ ~received[i][1].ok /\ pc[i] = "done"
    /\ \E i \in Slots : FirstStepFailed(i) /\ received[i][1].ok /\ pc[i] = "done"

\* C4: whatever invocations have run, returned or raised, the object's
\* region_name, endpoint_name and component_names are the values given at
\* construction and it has no other attribute.
C4_ConfigurationUnchanged ==
    /\ DOMAIN self = {"region_name", "endpoint_name", "component_names"}
    /\ self.region_name = region
    /\ self.endpoint_name = llama_mistral_endpoint_name
    /\ self.component_names = <<llama_ic_name, mistral_ic_name>>

C4_Witness ==
    /\ \E i \in Slots : outcome[i].kind = "returned"
    /\ \E i \in Slots : outcome[i].kind = "raised"
    /\ C4_ConfigurationUnchanged

\* C6: two ended invocations that were given the same request body and
\* received the same answers from the components ended with the same
\* result, whatever ran before them or overlapped with them.
C6_SameInputsSameResult ==
    \A i, j \in Slots :
        (/\ pc[i] = "done"
         /\ pc[j] = "done"
         /\ request[i] = request[j]
         /\ received[i] = received[j]) => outcome[i] = outcome[j]

C6_Witness ==
    \E i, j \in Slots :
        /\ i # j
        /\ pc[i] = "done"
        /\ pc[j] = "done"
        /\ request[i] = request[j]
        /\ received[i] = received[j]
        /\ outcome[i].kind = "returned"

(***************************************************************************)
(* Properties of failures raised by the client library.                    *)
(***************************************************************************)
\* In handle: a failure invoke_endpoint raised ended the invocation at that
\* call, and the caller got that very exception.
HandleFailuresSurface ==
    \A i \in Slots : \A n \in 1..Len(received[i]) :
        ~received[i][n].ok =>
            /\ n = Len(received[i])
            /\ pc[i] = "done"
            /\ outcome[i].kind = "raised"
            /\ outcome[i].exc = received[i][n].exc

\* In the streaming loop: a failure of the call or of the event stream ended
\* the cell with that very exception.
StreamFailuresSurface ==
    ds_failure # "none" => (ds_pc = "raised" /\ ds_exc = ds_failure)

\* In the scale-to-zero notebook: the last failure a client call raised
\* ended the run with that very exception.
LastFailureSurfaced == nb_pc = "raised" /\ nb_exc = last_failure.exc

NotFoundInCleanup ==
    last_failure.exc = "ResourceNotFoundException" /\ last_failure.at = "cleanup"

\* C5 as stated: in every operation a failure raised by the client library
\* is not caught: it ends the operation and reaches the caller unchanged,
\* nothing goes on past it.
C5_NoClientFailureIsCaught ==
    /\ HandleFailuresSurface
    /\ StreamFailuresSurface
    /\ last_failure.exc # "none" => LastFailureSurfaced

\* C5 amended: a failure raised by the client library is not caught and
\* reaches the caller unchanged, except the ResourceNotFoundException of
\* delete_schedule in the schedule clean-up loop: the loop catches it,
\* reports the schedule as not found and goes on with the next schedule.
C5_OnlyCleanupCatchesNotFound ==
    /\ HandleFailuresSurface
    /\ StreamFailuresSurface
    /\ last_failure.exc # "none" =>
          IF NotFoundInCleanup
          THEN nb_pc # "raised" /\ nb_exc = "none"
          ELSE LastFailureSurfaced

C5_Witness ==
    /\ NotFoundInCleanup
    /\ nb_pc = "delete_component"
    /\ \E n \in ScheduleNames : report[n] = "not found"
    /\ \E n \in ScheduleNames : report[n] = "Deleted schedule"

(***************************************************************************)
(* Properties of the scale-to-zero notebook.                               *)
(***************************************************************************)
\* C7: when the wait-for-endpoint loop has finished and the deployment is
\* next, the endpoint's status is InService.
C7_WaitEndsInService ==
    nb_pc = "deploy" => (status = "InService" /\ endpoint = "InService")

\* The clock hour lies between a Friday 18:00 and the next Monday 07:00 of
\* UTC+1.  Hour 0 is Friday 2024-11-29 00:00 UTC, so Friday 18:00 UTC+1 is
\* hour 17 of the week and Monday 07:00 UTC+1 is hour 78.
InWeekend(h) == (h % 168) \in 17..77

\* C8: with both UpdateInferenceComponentRuntimeConfig schedules in place
\* and firing, the component's desired CopyCount is 0 from each Friday 18:00
\* (UTC+1) firing until the next Monday 07:00 firing, and greater than 0
\* from each Monday firing until the next Friday firing.
C8_ZeroOverWeekend ==
    (/\ armed.update
     /\ inference_component.exists
     /\ \A n \in UpdatePair : ~Pending(n)) =>
        IF InWeekend(now)
        THEN inference_component.CopyCount = 0
        ELSE inference_component.CopyCount > 0

C8_Witness ==
    /\ armed.update
    /\ inference_component.exists
    /\ InWeekend(now)
    /\ now > 168
    /\ cycle.before_in = 2
    /\ inference_component.CopyCount = 0

\* C9: the CopyCount a Monday scale-out sets equals the CopyCount the
\* component had just before the Friday scale-in that preceded it.
C9_ScaleOutRestores ==
    (cycle.before_in # -1 /\ cycle.after_out # -1) => cycle.after_out = cycle.before_in

\* C10: with both delete/recreate schedules in place and firing, there is
\* no inference component from each Friday 18:00 firing until the next
\* Monday 07:00 firing, and from each Monday firing on there is one again
\* with the name, endpoint, variant and model of the deployed one.
C10_DeletedOverWeekend ==
    (/\ armed.recreate
     /\ \A n \in DeletePair : ~Pending(n)) =>
        IF InWeekend(now)
        THEN ~inference_component.exists
        ELSE /\ inference_component.exists
             /\ inference_component.InferenceComponentName
                    = deployed_component.InferenceComponentName
             /\ inference_component.EndpointName = deployed_component.EndpointName
             /\ inference_component.VariantName = deployed_component.VariantName
             /\ inference_component.ModelName = deployed_component.ModelName

C10_Witness ==
    /\ armed.recreate
    /\ ~InWeekend(now)
    /\ inference_component.exists
    /\ inference_component.MinMemoryRequiredInMb = 1024
    /\ inference_component.ModelName = final_model_name

\* The clock hour of a schedule's last invocation in the window: Friday
\* 2025-12-26 18:00 UTC+1 is 392 days and 17 hours after hour 0, Monday
\* 2025-12-29 07:00 UTC+1 is 395 days and 6 hours after it.
LastFiring(n) ==
    IF n \in {update_IC_scale_in_schedule, delete_IC_scale_in_schedule}
    THEN 9425
    ELSE 9486

\* No schedule fires before 2024-11-29T17:00:00 (hour 17) or after
\* 2025-12-31T23:59:59 (hour 9551, 397 days and 23 hours after hour 0).
FiresInsideWindow == fired # {} => (17 <= now /\ now <= 9551)

\* A schedule that has made its last invocation is gone when the hour is over.
DeletedOnceCompleted ==
    \A n \in ScheduleNames :
        (n \in fired /\ now = LastFiring(n) /\ now' = now + 1) => ~schedules'[n].exists

AfterCleanupLoop ==
    \/ nb_pc \in {"delete_component", "delete_endpoint", "delete_endpoint_config", "done"}
    \/ /\ nb_pc = "raised"
       /\ last_failure.at \in {"delete_component", "delete_endpoint", "delete_endpoint_config"}

\* The loop is done with the schedule: it is gone, and the loop printed
\* that it deleted it or that it was not found.
DealtWith(n) ==
    /\ ~schedules[n].exists
    /\ report[n] \in {"Deleted schedule", "not found"}

\* C12: after the schedule clean-up loop has run, none of the four schedules
\* exists, whichever of them existed before: the loop deletes a schedule
\* that exists, reports one that is gone as not found, and goes on to the
\* remaining schedules either way.
C12_NoScheduleAfterCleanup ==
    /\ AfterCleanupLoop => \A n \in ScheduleNames : DealtWith(n)
    /\ nb_pc = "cleanup" =>
          \A k \in 1..(cleanup_index - 1) : DealtWith(cleanup_order[k])

C12_Witness ==
    /\ nb_pc = "delete_component"
    /\ report[delete_IC_scale_in_schedule] = "not found"
    /\ report[update_IC_scale_out_schedule] = "Deleted schedule"
    /\ \A n \in ScheduleNames : ~schedules[n].exists

\* The notebook deletes the inference component in this step (a schedule
\* that deletes it leaves the notebook where it is).
NotebookDeletesComponent ==
    /\ nb_pc = "delete_component"
    /\ nb_pc' # nb_pc
    /\ inference_component.exists
    /\ ~inference_component'.exists

NotebookDeletesEndpoint == endpoint # "absent" /\ endpoint' = "absent"

NotebookDeletesEndpointConfig == endpoint_config /\ ~endpoint_config'

\* C13: the clean-up deletes the schedules, then the inference component,
\* then the endpoint, then the endpoint configuration: when the component is
\* deleted no schedule is left, when the endpoint is deleted the deletion of
\* its component has been requested and has gone through, and when the
\* endpoint configuration is deleted the endpoint is gone.
C13_CleanupOrder ==
    [][/\ NotebookDeletesComponent =>
             /\ \A n \in ScheduleNames : ~schedules[n].exists
             /\ endpoint # "absent"
             /\ endpoint_config
       /\ NotebookDeletesEndpoint =>
             /\ ~inference_component.exists
             /\ \A n \in ScheduleNames : ~schedules[n].exists
             /\ endpoint_config
       /\ NotebookDeletesEndpointConfig =>
             /\ endpoint = "absent"
             /\ ~inference_component.exists]_vars

C13_Witness ==
    /\ nb_pc = "done"
    /\ ~endpoint_config
    /\ endpoint = "absent"
    /\ ~inference_component.exists
    /\ \A n \in ScheduleNames : report[n] # "none" /\ ~schedules[n].exists

(***************************************************************************)
(* Properties of the workflow's configuration and requests.                *)
(***************************************************************************)
\* C14: the Mistral ModelBuilder is given the inference component name and
\* no resource requirements of its own, so that the component's resources
\* are the pre-benchmarked ones of the JumpStart deployment configuration.
C14_MistralWithoutRequirements ==
    \A i \in Slots : \A k \in 1..Len(calls[i]) :
        calls[i][k].InferenceComponentName = second_component(self) =>
            /\ mistral_mb.inference_component_name = calls[i][k].InferenceComponentName
            /\ "resource_requirements" \notin DOMAIN mistral_mb

\* C15: in every invocation of handle the first remote call targets
\* component_names[0] and the second component_names[1], both on the
\* configured endpoint_name; as the workflow is deployed these are the
\* inference component of the Llama ModelBuilder and that of the Mistral
\* ModelBuilder, in that order.
C15_CallTargets ==
    \A i \in Slots : \A k \in 1..Len(calls[i]) :
        /\ k <= 2
        /\ calls[i][k].EndpointName = self.endpoint_name
        /\ calls[i][k].EndpointName = llama_mistral_endpoint_name
        /\ calls[i][k].InferenceComponentName = self.component_names[k]
        /\ k = 1 =>
              /\ calls[i][k].InferenceComponentName
                     = llama_model_builder.inference_component_name
              /\ llama_model_builder.model = "meta-textgeneration-llama-3-1-8b"
        /\ k = 2 =>
              /\ calls[i][k].InferenceComponentName = mistral_mb.inference_component_name
              /\ mistral_mb.model = "huggingface-llm-mistral-7b"

C15_Witness ==
    \E i \in Slots :
        /\ Len(calls[i]) = 2
        /\ calls[i][1].InferenceComponentName = llama_ic_name
        /\ calls[i][2].InferenceComponentName = mistral_ic_name
        /\ calls[i][2].EndpointName = llama_mistral_endpoint_name

\* The caller's request body carries parameters of its own.
RequestHasParameters(i) ==
    /\ request[i].kind = "json"
    /\ request[i].doc.type = "dict"
    /\ "parameters" \in DOMAIN request[i].doc.items

\* C16: the body of the first remote call is the caller's request body as
\* it came, and the body of the second remote call is the JSON text of a new
\* object with two fields: inputs, the generated_text of the first response,
\* and parameters, an object with max_new_tokens = 50 and nothing else,
\* whatever parameters the caller's request carries.
C16_RequestBodies ==
    \A i \in Slots :
        /\ Len(calls[i]) >= 1 => calls[i][1].Body = request[i]
        /\ Len(calls[i]) >= 2 =>
              /\ HasGeneratedText(received[i][1].val)
              /\ json_loads(calls[i][2].Body) =
                    Ok([type |-> "dict",
                        items |-> [inputs |-> GeneratedTextOf(received[i][1].val),
                                   parameters |->
                                       [type |-> "dict",
                                        items |-> [max_new_tokens |->
                                                      [type |-> "int", n |-> 50]]]]])

C16_Witness ==
    \E i \in Slots :
        /\ Len(calls[i]) = 2
        /\ RequestHasParameters(i)
        /\ request[i].doc.items.parameters.items.max_new_tokens.n = 32
        /\ calls[i][2].Body.doc.items.parameters.items.max_new_tokens.n = 50
        /\ calls[i][2].Body.doc.items.inputs = PyStr("t2")

(***************************************************************************)
(* Properties of the endpoint status polling loop.                         *)
(***************************************************************************)
\* Where the run is, or where it was when an exception ended it.
Cell == IF nb_pc = "raised" THEN last_failure.at ELSE nb_pc

BeforePolling == Cell \in {"create_endpoint_config", "create_endpoint"}
InPollingLoop == nb_pc \in {"poll", "check"}

\* The loop is over, by its break or by an exception of describe_endpoint.
PollingEnded == ~BeforePolling /\ ~InPollingLoop

\* The loop is over by its break.
PollingExited == PollingEnded /\ Cell # "poll"

ReportedFinal == status \in {"InService", "Failed"}

\* One test of the status: the loop exits exactly when the status read is
\* InService or Failed, and otherwise polls again with nothing else changed;
\* and no poll is made once the loop is over.
PollingStep ==
    /\ (nb_pc = "check" /\ nb_pc' # nb_pc) =>
          /\ nb_pc' = (IF ReportedFinal THEN "deploy" ELSE "poll")
          /\ status' = status
          /\ endpoint' = endpoint
    /\ (nb_pc' = "poll" /\ nb_pc # "poll") => nb_pc \in {"create_endpoint", "check"}
    /\ PollingEnded => status' = status

\* C17 as stated: the polling loop terminates if and only if
\* describe_endpoint reports InService or Failed; it exits at the first poll
\* that reads one of the two, polls no more afterwards, and goes on polling
\* without bound for an endpoint in any other status.
C17_TerminatesIffReported ==
    /\ [](PollingEnded => ReportedFinal)
    /\ [][PollingStep]_vars
    /\ (InPollingLoop /\ endpoint \in {"InService", "Failed"}) ~> PollingEnded

\* C17 amended: the polling loop exits if and only if describe_endpoint
\* reports InService or Failed, at the first poll that reads one of the two,
\* and polls no more afterwards; for an endpoint in any other status it
\* polls again without bound; the one other way the loop ends is an
\* exception raised by describe_endpoint, which nothing catches.
C17_ExitsIffReported ==
    /\ [](PollingExited => ReportedFinal)
    /\ [](PollingEnded /\ ~PollingExited =>
             (nb_pc = "raised" /\ nb_exc = "ClientError" /\ last_failure.exc = nb_exc))
    /\ [][PollingStep]_vars
    /\ (InPollingLoop /\ endpoint \in {"InService", "Failed"}) ~> PollingEnded

C17_Witness ==
    /\ nb_pc = "raised"
    /\ last_failure.at = "poll"
    /\ status = "Creating"
    /\ endpoint = "InService"

====
